---- MODULE Spec2Model ----
(***************************************************************************)
(* Model of bokeh/real_time_stream/iex_server.py: a bokeh server document  *)
(* whose periodic callback update_price streams one quote per second into  *)
(* a ColumnDataSource (rollover 3600) and whose button callback            *)
(* update_ticker stores the text box value in the global TICKER and        *)
(* resets the ColumnDataSource.  Both callbacks run to completion on the   *)
(* single event loop, so each is one atomic action.                        *)
(***************************************************************************)
EXTENDS Integers, Sequences, FiniteSets, TLC

VARIABLES
    TICKER,     \* module global TICKER (line 56)
    data,       \* ColumnDataSource data.data: three parallel columns (line 165)
    title,      \* price_plot.title.text (lines 83, 181)
    appended,   \* history: the batches streamed since data.data was last assigned
    faults,     \* history: update_price calls that raised since data.data was last assigned
    lastOp,     \* history: the callback the event loop ran last
    raised,     \* history: the last callback ended by an uncaught exception
    fetched,    \* history: the get_last_price calls of the last callback, with their outcome
    dropped     \* history: the rows the last callback removed from the time column

vars == <<TICKER, data, title, appended, faults, lastOp, raised, fetched, dropped>>

----------------------------------------------------------------------------
(* Bounds and input sets *)

\* Spec: update_price stops being scheduled once this many batches were streamed.
MaxTicks == 3
\* SpecLong: update_price runs until rollover + MaxExtra batches were streamed.
MaxExtra == 5
\* update_price calls that may raise between two assignments of data.data.
MaxFaults == 1
\* SpecLong: batches already in the buffer are rollover - Margin.
Margin == 4

\* data.stream(new_data, rollover=3600)
rollover == 3600

\* Values the user may have in ticker_textbox when clicking Update.
Tickers == {"", "AAPL", "MSFT"}
\* Instants in milliseconds since the epoch (source "time" column, clock readings).
Times == {1999, 2000}
\* Prices in cents.
Prices == {0, 25012}

Columns == {"time", "display_time", "price"}

Min(a, b) == IF a <= b THEN a ELSE b

----------------------------------------------------------------------------
(* Values *)

\* A timezone-aware datetime holding the instant ms.
Datetime(ms) == [kind |-> "datetime", v |-> ms]
\* A one-row pandas Series of "%Y-%m-%d %H:%M:%S" strings: the instant cut to seconds.
Series(ms) == [kind |-> "Series", v |-> ms \div 1000]
None == [kind |-> "None", v |-> 0]

\* init(): the clock reading now, converted to US/Eastern (same instant).
init(now) == Datetime(now)

\* Outcome of a Python call: a returned value or a raised exception.
Return(val) == [raised |-> FALSE, val |-> val]
Raise == [raised |-> TRUE, val |-> <<>>]

----------------------------------------------------------------------------
(* get_last_price *)

\* What the HTTP GET of tops/last can produce.
\*   "neterr"    requests.get raises (connection error)
\*   "empty"     zero-byte body: pd.read_csv raises EmptyDataError
\*   "malformed" a table without a "time" column: prices_df["time"] raises KeyError
\*   "csv"       a table with columns time, price and the given rows
Rows == [time : Times, price : Prices]
Responses ==
    {[kind |-> k, rows |-> <<>>] : k \in {"neterr", "empty", "malformed"}}
    \cup {[kind |-> "csv", rows |-> <<>>]}
    \cup {[kind |-> "csv", rows |-> <<r>>] : r \in Rows}
    \cup {[kind |-> "csv", rows |-> <<r1, r2>>] : r1 \in Rows, r2 \in Rows}

get_last_price(resp) ==
    IF resp.kind = "neterr" THEN Raise                \* line 109
    ELSE IF resp.kind = "empty" THEN Raise            \* line 111
    ELSE IF resp.kind = "malformed" THEN Raise        \* line 114
    ELSE IF Len(resp.rows) # 1 THEN Raise             \* lines 124, 128
    ELSE Return([time         |-> Datetime(resp.rows[1].time),
                 display_time |-> Series(resp.rows[1].time),
                 price        |-> resp.rows[1].price])

----------------------------------------------------------------------------
(* ColumnDataSource *)

EmptyData == [time |-> <<>>, display_time |-> <<>>, price |-> <<>>]

\* del L[:-n] for n > 0
LastN(L, n) == IF Len(L) <= n THEN L ELSE SubSeq(L, Len(L) - n + 1, Len(L))

\* Mutants of stream: no rollover; a rollover one short; the newest rows evicted.
stream_no_rollover(d, new_data, ro) ==
    [c \in Columns |-> d[c] \o new_data[c]]

stream_one_short(d, new_data, ro) ==
    [c \in Columns |-> LastN(d[c] \o new_data[c], ro - 1)]

stream_evicts_newest(d, new_data, ro) ==
    [c \in Columns |->
        LET L == d[c] \o new_data[c] IN IF Len(L) <= ro THEN L ELSE SubSeq(L, 1, ro)]

\* ColumnDataSource.stream: extend every column, then keep its last ro elements.
stream(d, new_data, ro) ==
    [c \in Columns |-> LastN(d[c] \o new_data[c], ro)]

----------------------------------------------------------------------------
(* Callbacks *)

Init ==
    /\ TICKER = ""
    /\ data = EmptyData
    /\ title = <<"IEX Real Time Price Security Symbol: ", "">>
    /\ appended = <<>>
    /\ faults = 0
    /\ lastOp = "load"
    /\ raised = FALSE
    /\ fetched = <<>>
    /\ dropped = 0

\* Mutants of update_ticker: TICKER assigned as a local (no "global TICKER"); the
\* display_time column left out of the reset; no reset at all; an empty value ignored.
update_ticker_local(value) ==
    /\ TICKER' = TICKER
    /\ title' = <<"IEX Real-Time Price: ", value>>
    /\ data' = EmptyData
    /\ appended' = <<>>
    /\ faults' = 0
    /\ lastOp' = "update_ticker"
    /\ raised' = FALSE
    /\ fetched' = <<>>
    /\ dropped' = Len(data.time)

update_ticker_two_columns(value) ==
    /\ TICKER' = value
    /\ title' = <<"IEX Real-Time Price: ", value>>
    /\ data' = [data EXCEPT !.time = <<>>, !.price = <<>>]
    /\ appended' = <<>>
    /\ faults' = 0
    /\ lastOp' = "update_ticker"
    /\ raised' = FALSE
    /\ fetched' = <<>>
    /\ dropped' = Len(data.time)

update_ticker_keeps_rows(value) ==
    /\ TICKER' = value
    /\ title' = <<"IEX Real-Time Price: ", value>>
    /\ lastOp' = "update_ticker"
    /\ raised' = FALSE
    /\ fetched' = <<>>
    /\ dropped' = 0
    /\ UNCHANGED <<data, appended, faults>>

update_ticker_ignores_empty(value) ==
    /\ TICKER' = IF value = "" THEN TICKER ELSE value
    /\ title' = <<"IEX Real-Time Price: ", value>>
    /\ data' = EmptyData
    /\ appended' = <<>>
    /\ faults' = 0
    /\ lastOp' = "update_ticker"
    /\ raised' = FALSE
    /\ fetched' = <<>>
    /\ dropped' = Len(data.time)

\* update_ticker, with value the content of ticker_textbox at the click.
update_ticker(value) ==
    /\ TICKER' = value
    /\ title' = <<"IEX Real-Time Price: ", value>>
    /\ data' = EmptyData
    /\ appended' = <<>>
    /\ faults' = 0
    /\ lastOp' = "update_ticker"
    /\ raised' = FALSE
    /\ fetched' = <<>>
    /\ dropped' = Len(data.time)

\* Mutants of lines 143-148: no test for the empty ticker; a placeholder streamed
\* when get_last_price raises.
new_quote_always_fetches(resp, now1, now2) ==
    LET r == get_last_price(resp) IN
    [out |-> r, calls |-> <<[symbols |-> TICKER, ok |-> ~r.raised]>>]

new_quote_fallback(resp, now1, now2) ==
    LET placeholder == Return([time |-> init(now1), display_time |-> init(now2),
                               price |-> 0])
    IN  IF TICKER = ""
        THEN [out |-> placeholder, calls |-> <<>>]
        ELSE LET r == get_last_price(resp) IN
             [out   |-> IF r.raised THEN placeholder ELSE r,
              calls |-> <<[symbols |-> TICKER, ok |-> ~r.raised]>>]

\* Lines 143-148: the quote update_price is about to stream, and the fetches made.
\* now1, now2 are the clock readings of the two init() calls.
new_quote(resp, now1, now2) ==
    IF TICKER = ""
    THEN [out   |-> Return([time |-> init(now1), display_time |-> init(now2),
                            price |-> 0]),
          calls |-> <<>>]
    ELSE LET r == get_last_price(resp) IN
         [out |-> r, calls |-> <<[symbols |-> TICKER, ok |-> ~r.raised]>>]

\* Mutant of lines 150-152: the display_time column filled from time.
new_data_display_from_time(q) ==
    [time |-> <<q.time>>, display_time |-> <<q.time>>, price |-> <<q.price>>]

\* Lines 150-152
new_data(q) ==
    [time |-> <<q.time>>, display_time |-> <<q.display_time>>, price |-> <<q.price>>]

update_price(resp, now1, now2) ==
    LET q == new_quote(resp, now1, now2) IN
    /\ lastOp' = "update_price"
    /\ fetched' = q.calls
    /\ raised' = q.out.raised
    /\ UNCHANGED <<TICKER, title>>
    /\ IF q.out.raised
       THEN /\ faults' = faults + 1
            /\ dropped' = 0
            /\ UNCHANGED <<data, appended>>
       ELSE /\ data' = stream(data, new_data(q.out.val), rollover)
            /\ appended' = Append(appended, [quote |-> q.out.val, for |-> TICKER])
            /\ dropped' = Len(data.time) + 1 - Len(data'.time)
            /\ UNCHANGED faults

WouldRaise(resp) == TICKER # "" /\ get_last_price(resp).raised

----------------------------------------------------------------------------
(* Spec: every response, clock reading and ticker, a few ticks *)

Tick ==
    \E resp \in Responses, now1 \in Times, now2 \in Times :
        /\ Len(appended) < MaxTicks
        /\ WouldRaise(resp) => faults < MaxFaults
        /\ update_price(resp, now1, now2)

Click == \E value \in Tickers : update_ticker(value)

Next == Tick \/ Click

Spec == Init /\ [][Next]_vars

----------------------------------------------------------------------------
(* A feed with strictly increasing timestamps, followed past the rollover *)

\* The k-th quote of the feed, or a connection error.
FeedResponses(k) ==
    {[kind |-> "neterr", rows |-> <<>>],
     [kind |-> "csv", rows |-> <<[time |-> 1000 * k, price |-> k]>>]}

\* The k-th batch update_price streams for ticker t when the k-th clock reading and
\* the k-th feed quote both carry the instant 1000 * k.
FeedQuote(t, k) ==
    IF t = ""
    THEN [time |-> Datetime(1000 * k), display_time |-> Datetime(1000 * k), price |-> 0]
    ELSE [time |-> Datetime(1000 * k), display_time |-> Series(1000 * k), price |-> k]

\* The state n <= rollover such update_price calls after update_ticker(t) lead to.
FeedState(t, n) ==
    /\ TICKER = t
    /\ title = <<"IEX Real-Time Price: ", t>>
    /\ data = [time         |-> [i \in 1..n |-> FeedQuote(t, i).time],
               display_time |-> [i \in 1..n |-> FeedQuote(t, i).display_time],
               price        |-> [i \in 1..n |-> FeedQuote(t, i).price]]
    /\ appended = [i \in 1..n |-> [quote |-> FeedQuote(t, i), for |-> t]]
    /\ faults = 0
    /\ lastOp = "update_price"
    /\ raised = FALSE
    /\ fetched = IF t = "" THEN <<>> ELSE <<[symbols |-> t, ok |-> TRUE]>>
    /\ dropped = 0

TickFeed ==
    \E resp \in FeedResponses(Len(appended) + 1) :
        /\ WouldRaise(resp) => faults < MaxFaults
        /\ update_price(resp, 1000 * (Len(appended) + 1), 1000 * (Len(appended) + 1))

(* SpecFull: the feed followed from the initial state through rollover + MaxExtra    *)
(* batches.  Its behaviours are rollover + MaxExtra steps long.                      *)

TickFull == Len(appended) < rollover + MaxExtra /\ TickFeed

ClickFull == \E value \in Tickers : update_ticker(value)

NextFull == TickFull \/ ClickFull

SpecFull == Init /\ [][NextFull]_vars

\* Under SpecFull: rollover - Margin fault-free feed ticks after update_ticker(t) end
\* in FeedState(t, rollover - Margin), the states SpecLong starts from.
FeedStateReached ==
    (lastOp = "update_price" /\ faults = 0 /\ ~raised
        /\ title[1] = "IEX Real-Time Price: " /\ Len(appended) = rollover - Margin)
    => FeedState(TICKER, rollover - Margin)

(* SpecLong: the same feed, followed for the first MaxTicks batches after the        *)
(* buffer was emptied and from batch rollover - Margin to batch rollover + MaxExtra. *)
(* It starts in the initial state or in a state SpecFull reaches after               *)
(* rollover - Margin batches, so that its behaviours are short.                      *)

InitLong ==
    \/ Init
    \/ \E t \in Tickers : FeedState(t, rollover - Margin)

TickLong ==
    /\ \/ Len(appended) < MaxTicks
       \/ /\ Len(appended) >= rollover - Margin
          /\ Len(appended) < rollover + MaxExtra
    /\ TickFeed

ClickLong == \E value \in Tickers : update_ticker(value)

NextLong == TickLong \/ ClickLong

SpecLong == InitLong /\ [][NextLong]_vars

----------------------------------------------------------------------------
(* Properties *)

LastOf(L) == L[Len(L)]
\* The batch streamed i-th since data.data was last assigned, as a row of data.
RowOf(i) == appended[i].quote
\* Row i of data.
DataRow(i) ==
    [time |-> data.time[i], display_time |-> data.display_time[i], price |-> data.price[i]]

\* C1: in every reachable state, whatever the interleaving of update_price and
\* update_ticker, no column of the buffer holds more than rollover = 3600 entries.
C1_BufferBounded == \A c \in Columns : Len(data[c]) <= rollover

C1_Witness ==
    /\ Len(appended) = rollover + MaxExtra
    /\ Len(data.price) = rollover
    /\ dropped = 1

\* C2: right after update_ticker ran with text box value t, all three columns are
\* empty and TICKER is t (the value the title shows), whatever the buffer held.
C2_ClearedAfterSetTicker ==
    lastOp = "update_ticker" =>
        /\ Len(data.time) = 0 /\ Len(data.display_time) = 0 /\ Len(data.price) = 0
        /\ TICKER = title[2]

C2_Witness ==
    /\ lastOp = "update_ticker"
    /\ dropped >= 2
    /\ TICKER = ""

\* C3 as stated: with a non-empty ticker the buffer length is min(k, rollover),
\* k being the update_price calls made since the ticker was set.
C3_Original ==
    TICKER # "" => Len(data.time) = Min(Len(appended) + faults, rollover)

\* C3 as amended: with a non-empty ticker the buffer length is min(k, rollover),
\* k being the update_price calls since the ticker was set whose fetch succeeded;
\* a call whose fetch raised adds nothing.
C3_LengthIsMinOfSucceeded ==
    TICKER # "" => \A c \in Columns : Len(data[c]) = Min(Len(appended), rollover)

C3_Witness ==
    /\ TICKER # ""
    /\ faults > 0
    /\ Len(appended) > rollover
    /\ Len(data.time) = rollover

\* C4: eviction is oldest-first: once rollover + m batches were streamed since the
\* buffer was last empty, the buffer holds exactly the rollover newest of them in
\* arrival order.
C4_OldestEvictedFirst ==
    Len(appended) >= rollover =>
        /\ Len(data.time) = rollover
        /\ Len(data.display_time) = rollover
        /\ Len(data.price) = rollover
        /\ \A i \in 1..rollover : DataRow(i) = RowOf(Len(appended) - rollover + i)

C4_Witness ==
    /\ Len(appended) = rollover + MaxExtra
    /\ TICKER = "AAPL"
    /\ data.time[1] = Datetime(1000 * (MaxExtra + 1))
    /\ data.time[rollover] = Datetime(1000 * (rollover + MaxExtra))

\* C5: an update_price that runs while TICKER is empty makes no get_last_price call,
\* does not raise, and appends exactly one row: price 0, time and display_time both
\* datetimes read from the clock; from the initial state the buffer then has one row.
C5_PlaceholderWhenEmpty ==
    [][(lastOp' = "update_price" /\ TICKER = "") =>
          /\ fetched' = <<>>
          /\ ~raised'
          /\ Len(appended') = Len(appended) + 1
          /\ \A c \in Columns : Len(data'[c]) = Min(Len(data[c]) + 1, rollover)
          /\ LastOf(data'.price) = 0
          /\ LastOf(data'.time) \in {Datetime(t) : t \in Times}
          /\ LastOf(data'.display_time) \in {Datetime(t) : t \in Times}
          /\ lastOp = "load" => Len(data'.time) = 1]_vars

C5_Witness ==
    /\ lastOp = "update_price"
    /\ TICKER = ""
    /\ title[1] = "IEX Real Time Price Security Symbol: "
    /\ Len(data.time) = 1
    /\ data.price[1] = 0
    /\ data.time[1].v # data.display_time[1].v

\* C6: an update_price that runs with a non-empty TICKER and whose fetch succeeds
\* calls get_last_price exactly once, for TICKER, and the last row of the buffer is
\* the returned (time, display_time, price) unchanged.
C6_FetchedQuoteAppended ==
    [][(lastOp' = "update_price" /\ TICKER # "" /\ ~raised') =>
          /\ fetched' = <<[symbols |-> TICKER, ok |-> TRUE]>>
          /\ Len(appended') = Len(appended) + 1
          /\ LastOf(data'.time) = LastOf(appended').quote.time
          /\ LastOf(data'.display_time) = LastOf(appended').quote.display_time
          /\ LastOf(data'.price) = LastOf(appended').quote.price
          /\ LastOf(appended').quote \in
                {get_last_price(r).val : r \in {x \in Responses : ~get_last_price(x).raised}}]_vars

C6_Witness ==
    /\ lastOp = "update_price"
    /\ TICKER = "AAPL"
    /\ ~raised
    /\ Len(data.time) = 2
    /\ LastOf(data.time) = Datetime(1999)
    /\ LastOf(data.display_time) = Series(1999)
    /\ LastOf(data.price) = 25012

\* C7: the three columns have the same length in every reachable state.
C7_ColumnsSameLength ==
    /\ Len(data.time) = Len(data.display_time)
    /\ Len(data.display_time) = Len(data.price)

C7_Witness ==
    /\ Len(data.display_time) = rollover
    /\ Len(appended) = rollover + 1
    /\ faults = 1

Idle == TICKER = ""
Active == TICKER # ""

\* C8 as stated: Idle lasts until a ticker is submitted, and a change of the ticker
\* while Active leads back to Idle with the buffer cleared.
C8_Original ==
    [][/\ (Idle /\ ~Idle') => lastOp' = "update_ticker"
       /\ (Active /\ TICKER' # TICKER) => (Idle' /\ data' = EmptyData)]_vars

\* C8 as amended: the program starts Idle; update_price never changes the ticker, makes
\* no fetch while Idle and one fetch while Active; only update_ticker changes the
\* ticker, it clears the buffer, and it leads to Idle when the submitted value is empty
\* and to Active otherwise (so a change from one symbol to another stays Active); some
\* step is always enabled.
C8_TwoStates ==
    /\ Idle
    /\ [](ENABLED Next)
    /\ [][/\ lastOp' = "update_price" =>
                /\ TICKER' = TICKER
                /\ Idle => (fetched' = <<>> /\ ~raised')
                /\ Active => Len(fetched') = 1
          /\ TICKER' # TICKER => lastOp' = "update_ticker"
          /\ lastOp' = "update_ticker" =>
                /\ data' = EmptyData
                /\ Idle' <=> title'[2] = ""
                /\ Active' <=> title'[2] # ""]_vars

C8_Witness ==
    /\ lastOp = "update_ticker"
    /\ TICKER = "MSFT"
    /\ dropped = 1
    /\ faults = 0

\* C9: when get_last_price raises during update_price, the exception leaves
\* update_price uncaught after that single call, and TICKER and the buffer are as before.
C9_FaultLeavesStateUntouched ==
    [][(lastOp' = "update_price" /\ \E i \in DOMAIN fetched' : ~fetched'[i].ok) =>
          /\ raised'
          /\ Len(fetched') = 1
          /\ data' = data
          /\ appended' = appended
          /\ TICKER' = TICKER]_vars

C9_Witness ==
    /\ lastOp = "update_price"
    /\ raised
    /\ fetched = <<[symbols |-> "MSFT", ok |-> FALSE]>>
    /\ Len(data.time) = 2

\* C10: every row of the buffer was streamed after the most recent update_ticker, for
\* the value TICKER has now; rows streamed while TICKER is empty are placeholders.
C10_NoHistoryAcrossTickers ==
    LET off == Len(appended) - Len(data.time) IN
    /\ off >= 0
    /\ \A i \in 1..Len(data.time) :
          /\ appended[off + i].for = TICKER
          /\ DataRow(i) = RowOf(off + i)
          /\ TICKER = "" => (data.price[i] = 0 /\ data.display_time[i].kind = "datetime")
          /\ TICKER # "" => data.display_time[i].kind = "Series"

C10_Witness ==
    /\ TICKER = "MSFT"
    /\ title[2] = "MSFT"
    /\ Len(data.time) = MaxTicks
    /\ faults = 1

====
